---- MODULE Spec2Model ----
(***************************************************************************)
(* A model of the handle-lifetime layer of pdfium-render:                  *)
(*   src/src/form.rs                       PdfForm, PdfFormType            *)
(*   src/src/action_local_destination.rs   PdfActionLocalDestination       *)
(*   src/src/page_annotation_highlight.rs  PdfPageHighlightAnnotation      *)
(*   src/examples/links.rs                 the link-counting loop of main  *)
(*                                                                         *)
(* The native engine (Pdfium) is the environment: every value it returns   *)
(* (a handle, the last error, a form type code) is a nondeterministic      *)
(* choice.  PdfForm::from_pdfium and the drop of a PdfForm are modelled    *)
(* statement by statement (pc), because the order of the native teardown   *)
(* call and the release of the FPDF_FORMFILLINFO block is what the         *)
(* lifetime properties are about.  A panic unwinds (the default panic      *)
(* strategy), running the destructors of the locals of from_pdfium.        *)
(***************************************************************************)
EXTENDS Integers, FiniteSets, Sequences

(* ------------------------------ bounds -------------------------------- *)
\* Calls of PdfForm::from_pdfium in one behaviour.
MaxCalls == 3
\* Calls of PdfActionLocalDestination::destination in one behaviour.
MaxDestCalls == 2
\* Borrowing wrappers of each kind alive at the same time.
MaxWrappers == 1
\* Links on one page of the document read by examples/links.rs.
MaxLinks == 3
\* Pages of the document read by examples/links.rs.
MaxPages == 2

(* ----------------------------- constants ------------------------------ *)
\* The null handle (std::ptr::null_mut, is_null()).
NULL == 0
\* Form type codes of the engine's public header, as imported from bindgen.
FORMTYPE_NONE == 0
FORMTYPE_ACRO_FORM == 1
FORMTYPE_XFA_FULL == 2
FORMTYPE_XFA_FOREGROUND == 3

\* The c_int values FPDF_GetFormType returns in the model: the four known
\* codes and one the match in PdfFormType::from_pdfium does not know.
FormTypeCodes == FORMTYPE_NONE .. (FORMTYPE_XFA_FOREGROUND + 1)

\* get_pdfium_last_error(): Option<PdfiumInternalError>.
NoError == "NoError"
InternalErrors == {"Unknown", "FormatError"}
LastErrors == {NoError} \cup InternalErrors

\* The documents open in the engine (FPDF_DOCUMENT handles).
Docs == {1, 2}
\* The binding implementations a wrapper may refer to.
Bindings == {"dynamic", "static"}
\* FPDF_ACTION handles, FPDF_ANNOTATION and FPDF_PAGE handles, FPDF_DEST handles.
ActionHandles == {1}
AnnotationHandles == {1}
PageHandles == {1}
DestHandles == {1, 2}

VARIABLES
    \* ---- engine (environment) ----
    docFormType,   \* [Docs -> FormTypeCodes]: what FPDF_GetFormType reports
    lastError,     \* what the last-error query reports
    engineForms,   \* live form-fill handles, each with the block address retained
    nativeOpen,    \* open document, page, annotation and action handles
    exitCalls,     \* [handle -> number of FPDFDOC_ExitFormFillEnvironment calls]
    getDestCalls,  \* number of FPDFAction_GetDest calls
    \* ---- heap ----
    heap,          \* addresses of the allocated FPDF_FORMFILLINFO blocks
    nextAddr,      \* next fresh block address
    nextHandle,    \* next fresh form-fill handle
    \* ---- PdfForm ----
    pc,            \* position inside from_pdfium / drop of a PdfForm
    call,          \* locals of the from_pdfium call in progress
    dropping,      \* the PdfForm whose destructor is running
    forms,         \* the PdfForm values from_pdfium returned, owned by the caller
    history,       \* finished from_pdfium calls: engine answers and outcome
    \* ---- borrowing wrappers ----
    actions,       \* live PdfActionLocalDestination wrappers
    annotations,   \* live PdfPageHighlightAnnotation wrappers
    destCalls,     \* number of destination() calls
    lastDest,      \* the last destination() call: receiver, engine answers, result
    \* ---- examples/links.rs ----
    pageLinks,     \* [page index -> number of links the engine holds for it]
    lpc,           \* position in main
    page_index,    \* the page of the outer loop
    link_index,    \* the position of the links iterator
    links_count    \* the local links_count

engineVars == <<docFormType, lastError, engineForms, nativeOpen, exitCalls, getDestCalls>>
formVars == <<heap, nextAddr, nextHandle, pc, call, dropping, forms, history>>
wrapperVars == <<actions, annotations, destCalls, lastDest>>
linkVars == <<pageLinks, lpc, page_index, link_index, links_count>>
formVars_but_pc == <<heap, nextAddr, nextHandle, call, dropping, forms, history>>
vars == <<engineVars, formVars, wrapperVars, linkVars>>

NoCall == [document_handle |-> NULL, form_fill_info |-> NULL, form_handle |-> NULL,
           error |-> NoError, outcome |-> "running"]
NoForm == [form_handle |-> NULL, document_handle |-> NULL, form_fill_info |-> NULL]

(* --------------------------- PdfFormType ------------------------------ *)
\* `as u32` on the c_int FPDF_GetFormType returns.  The cast keeps a value that
\* is not negative; the codes of the model are not negative (2^32 + x, the
\* image of a negative x, is beyond the integers of the model checker).
AsU32(x) == CASE x >= 0 -> x

Ok(v) == [ok |-> TRUE, val |-> v]
Err(e) == [ok |-> FALSE, val |-> e]

\* PdfFormType::from_pdfium(form_type: u32) -> Result<PdfFormType, PdfiumError>
PdfFormType_from_pdfium(form_type) ==
    CASE form_type = FORMTYPE_NONE -> Ok("None")
      [] form_type = FORMTYPE_ACRO_FORM -> Ok("Acrobat")
      [] form_type = FORMTYPE_XFA_FULL -> Ok("XfaFull")
      [] form_type = FORMTYPE_XFA_FOREGROUND -> Ok("XfaForeground")
      [] OTHER -> Err("UnknownFormType")

\* Result::unwrap(): the value, or a panic.
Unwrap(r) == IF r.ok THEN r.val ELSE "PANIC"

\* PdfForm::form_type(&self): FPDF_GetFormType(self.document_handle) as u32,
\* decoded and unwrapped.
PdfForm_form_type(self) ==
    Unwrap(PdfFormType_from_pdfium(AsU32(docFormType[self.document_handle])))

(* ------------------------- the native engine -------------------------- *)
\* FPDFDOC_InitFormFillEnvironment(document, form_info): the engine answers a
\* null handle or a fresh one, and keeps the address of form_info for it.
FPDFDOC_InitFormFillEnvironment(h, form_info) ==
    IF h = NULL THEN engineForms
    ELSE engineForms \cup {[handle |-> h, info |-> form_info]}

\* FPDFDOC_ExitFormFillEnvironment(handle): the engine forgets the handle.
FPDFDOC_ExitFormFillEnvironment(h) ==
    {e \in engineForms : e.handle # h}

(* ------------------------------ PdfForm ------------------------------- *)
\* The condition with || written for &&.
InitSucceeded_Or(form_handle, error) ==
    form_handle # NULL \/ error = NoError

\* The condition of from_pdfium under which a PdfForm is built:
\*   !form_handle.is_null() && bindings.get_pdfium_last_error().is_none()
InitSucceeded(form_handle, error) ==
    form_handle # NULL /\ error = NoError

\* The comparison with == written for !=.
FormOutcome_Inverted(form_type) ==
    CASE form_type = "PANIC" -> "Panic"
      [] form_type = "None" -> "Some"
      [] OTHER -> "None"

\* What from_pdfium does with the PdfForm it built, given its form type:
\*   if form.form_type() != PdfFormType::None { Some(form) } else { None }
\* and the unwrap inside form_type() panics on an unknown code.
FormOutcome(form_type) ==
    CASE form_type = "PANIC" -> "Panic"
      [] form_type = "None" -> "None"
      [] OTHER -> "Some"

\* impl Drop for PdfForm: the handle drop() passes to
\* FPDFDOC_ExitFormFillEnvironment.
PdfForm_drop(self) == self.form_handle

\* A finished call of from_pdfium: what the engine answered (the handle, the
\* last error, the form type code it reports for the document) and the outcome.
Finished(c, outcome) ==
    [document_handle |-> c.document_handle, form_handle |-> c.form_handle,
     error |-> c.error, form_type |-> docFormType[c.document_handle],
     result |-> outcome]

\* let mut form_fill_info = Box::pin(FPDF_FORMFILLINFO { .. }): a block at a
\* fresh heap address.
FromPdfium_Alloc(d) ==
    /\ pc = "idle"
    /\ nextAddr <= MaxCalls
    /\ heap' = heap \cup {nextAddr}
    /\ nextAddr' = nextAddr + 1
    /\ call' = [NoCall EXCEPT !.document_handle = d, !.form_fill_info = nextAddr]
    /\ pc' = "init"
    /\ UNCHANGED <<engineVars, nextHandle, dropping, forms, history,
                   wrapperVars, linkVars>>

\* let form_handle = bindings.FPDFDOC_InitFormFillEnvironment(document_handle,
\*                                                form_fill_info.deref_mut());
FromPdfium_Init ==
    /\ pc = "init"
    /\ \E h \in {NULL, nextHandle}, e \in LastErrors :
          /\ engineForms' = FPDFDOC_InitFormFillEnvironment(h, call.form_fill_info)
          /\ lastError' = e
          /\ nextHandle' = IF h = NULL THEN nextHandle ELSE nextHandle + 1
          /\ call' = [call EXCEPT !.form_handle = h, !.error = e]
    /\ pc' = "check"
    /\ UNCHANGED <<docFormType, nativeOpen, exitCalls, getDestCalls, heap, nextAddr,
                   dropping, forms, history, wrapperVars, linkVars>>

\* if !form_handle.is_null() && bindings.get_pdfium_last_error().is_none()
\*     { let form = PdfForm { .. }; .. } else { None }
\* In the else branch form_fill_info, still a local, goes out of scope.
FromPdfium_Check ==
    /\ pc = "check"
    /\ IF InitSucceeded(call.form_handle, lastError)
       THEN /\ pc' = "form_type"
            /\ UNCHANGED <<heap, call, history>>
       ELSE /\ heap' = heap \ {call.form_fill_info}
            /\ history' = history \cup {Finished(call, "None")}
            /\ call' = NoCall
            /\ pc' = "idle"
    /\ UNCHANGED <<engineVars, nextAddr, nextHandle, dropping, forms,
                   wrapperVars, linkVars>>

\* if form.form_type() != PdfFormType::None { Some(form) } else { None }
\* Some(form) moves the PdfForm to the caller (the Pin<Box> moves, the block
\* stays where it is).  Otherwise, and when form_type() panics, the local form
\* is dropped.
FromPdfium_FormType ==
    /\ pc = "form_type"
    /\ LET form == [form_handle |-> call.form_handle,
                    document_handle |-> call.document_handle,
                    form_fill_info |-> call.form_fill_info]
           outcome == FormOutcome(PdfForm_form_type(form))
       IN IF outcome = "Some"
          THEN /\ forms' = forms \cup {form}
               /\ history' = history \cup
                     {Finished(call, "Some")}
               /\ call' = NoCall
               /\ pc' = "idle"
               /\ UNCHANGED dropping
          ELSE /\ dropping' = form
               /\ call' = [call EXCEPT !.outcome = outcome]
               /\ pc' = "drop"
               /\ UNCHANGED <<forms, history>>
    /\ UNCHANGED <<engineVars, heap, nextAddr, nextHandle, wrapperVars, linkVars>>

\* The caller lets go of a PdfForm that from_pdfium returned.
DropForm(f) ==
    /\ pc = "idle"
    /\ f \in forms
    /\ forms' = forms \ {f}
    /\ dropping' = f
    /\ pc' = "drop"
    /\ UNCHANGED <<engineVars, heap, nextAddr, nextHandle, call, history,
                   wrapperVars, linkVars>>

\* impl Drop for PdfForm:
\*   self.bindings.FPDFDOC_ExitFormFillEnvironment(self.form_handle);
Drop_Exit ==
    /\ pc = "drop"
    /\ LET h == PdfForm_drop(dropping)
       IN /\ engineForms' = FPDFDOC_ExitFormFillEnvironment(h)
          /\ exitCalls' = [exitCalls EXCEPT ![h] = @ + 1]
    /\ pc' = "drop_fields"
    /\ UNCHANGED <<docFormType, lastError, nativeOpen, getDestCalls, formVars_but_pc,
                   wrapperVars, linkVars>>

\* After drop() the fields are dropped: the Pin<Box<FPDF_FORMFILLINFO>> frees
\* its block.  A from_pdfium call that was dropping its local form ends here.
Drop_Fields ==
    /\ pc = "drop_fields"
    /\ heap' = heap \ {dropping.form_fill_info}
    /\ dropping' = NoForm
    /\ IF call = NoCall
       THEN UNCHANGED <<call, history>>
       ELSE /\ history' = history \cup
                  {Finished(call, call.outcome)}
            /\ call' = NoCall
    /\ pc' = "idle"
    /\ UNCHANGED <<engineVars, nextAddr, nextHandle, forms, wrapperVars, linkVars>>

(* ----------------------- PdfActionLocalDestination -------------------- *)
Native(kind, handle) == [kind |-> kind, handle |-> handle]

\* PdfDestination::from_pdfium(handle, bindings): the destination wrapper holds
\* the handle and the bindings reference it is given.
PdfDestination_from_pdfium(handle, bindings) ==
    [handle |-> handle, bindings |-> bindings]

PdfiumLibraryInternalError(cause) ==
    [kind |-> "PdfiumLibraryInternalError", cause |-> cause]

\* PdfActionLocalDestination::from_pdfium(handle, document, bindings)
PdfActionLocalDestination_from_pdfium(handle, document, b) ==
    [handle |-> handle, document |-> document, bindings |-> b]

\* destination() with the cause of a failure dropped: every null handle is
\* reported as the unknown error.
PdfActionLocalDestination_destination_NoCause(self, handle, error) ==
    IF handle = NULL
    THEN Err(PdfiumLibraryInternalError("Unknown"))
    ELSE Ok(PdfDestination_from_pdfium(handle, self.bindings))

\* PdfActionLocalDestination::destination(&self), given what
\* FPDFAction_GetDest(self.document, self.handle) returned and what the
\* last-error query reports.
PdfActionLocalDestination_destination(self, handle, error) ==
    IF handle = NULL
    THEN IF error # NoError
         THEN Err(PdfiumLibraryInternalError(error))
         ELSE Err(PdfiumLibraryInternalError("Unknown"))
    ELSE Ok(PdfDestination_from_pdfium(handle, self.bindings))

\* A Drop impl that closes the document the action borrows.
PdfActionLocalDestination_drop_Closing(self, open) ==
    open \ {Native("document", self.document)}

\* PdfActionLocalDestination has no Drop impl and its fields are two raw
\* handles and a shared reference: dropping it leaves the engine's open
\* handles as they are.
PdfActionLocalDestination_drop(self, open) == open

NoAction == PdfActionLocalDestination_from_pdfium(NULL, NULL, "none")
NoDest == [self |-> NoAction, handle |-> NULL, error |-> NoError,
           result |-> Err(PdfiumLibraryInternalError("no call"))]

\* A link's action is wrapped as a PdfActionLocalDestination.
Action_FromPdfium(h, d, b) ==
    /\ pc = "idle"
    /\ Cardinality(actions) < MaxWrappers
    /\ Native("action", h) \in nativeOpen
    /\ Native("document", d) \in nativeOpen
    /\ actions' = actions \cup {PdfActionLocalDestination_from_pdfium(h, d, b)}
    /\ UNCHANGED <<engineVars, formVars, annotations, destCalls, lastDest, linkVars>>

\* action.destination(): one FPDFAction_GetDest call; the engine answers a
\* null or a destination handle and leaves any last error behind.
Action_Destination(self) ==
    /\ pc = "idle"
    /\ self \in actions
    /\ destCalls < MaxDestCalls
    /\ \E h \in DestHandles \cup {NULL}, e \in LastErrors :
          /\ lastError' = e
          /\ lastDest' = [self |-> self, handle |-> h, error |-> e,
                          result |-> PdfActionLocalDestination_destination(self, h, e)]
    /\ getDestCalls' = getDestCalls + 1
    /\ destCalls' = destCalls + 1
    /\ UNCHANGED <<docFormType, engineForms, nativeOpen, exitCalls, formVars,
                   actions, annotations, linkVars>>

\* The PdfActionLocalDestination goes out of scope.
Action_Drop(self) ==
    /\ pc = "idle"
    /\ self \in actions
    /\ actions' = actions \ {self}
    /\ nativeOpen' = PdfActionLocalDestination_drop(self, nativeOpen)
    /\ UNCHANGED <<docFormType, lastError, engineForms, exitCalls, getDestCalls,
                   formVars, annotations, destCalls, lastDest, linkVars>>

(* ---------------------- PdfPageHighlightAnnotation -------------------- *)
\* PdfPageAnnotationObjects::from_pdfium(document, page, annotation, bindings)
PdfPageAnnotationObjects_from_pdfium(document_handle, page_handle, annotation_handle, b) ==
    [document_handle |-> document_handle, page_handle |-> page_handle,
     annotation_handle |-> annotation_handle, bindings |-> b]

\* Dropping a PdfPageAnnotationObjects, a borrower of the annotation's page
\* objects, releases nothing.
PdfPageAnnotationObjects_drop(self, open) == open

\* PdfPageHighlightAnnotation::from_pdfium(annotation_handle, page_handle, document)
PdfPageHighlightAnnotation_from_pdfium(annotation_handle, page_handle, document) ==
    [handle |-> annotation_handle,
     bindings |-> document.bindings,
     objects |-> PdfPageAnnotationObjects_from_pdfium(
                     document.handle, page_handle, annotation_handle, document.bindings)]

\* PdfPageHighlightAnnotation has no Drop impl: dropping it drops its fields, of
\* which only objects is more than a raw handle or a reference.
PdfPageHighlightAnnotation_drop(self, open) ==
    PdfPageAnnotationObjects_drop(self.objects, open)

Annotation_FromPdfium(a, p, d, b) ==
    /\ pc = "idle"
    /\ Cardinality(annotations) < MaxWrappers
    /\ Native("annotation", a) \in nativeOpen
    /\ Native("page", p) \in nativeOpen
    /\ Native("document", d) \in nativeOpen
    /\ annotations' = annotations \cup
          {PdfPageHighlightAnnotation_from_pdfium(a, p, [handle |-> d, bindings |-> b])}
    /\ UNCHANGED <<engineVars, formVars, actions, destCalls, lastDest, linkVars>>

Annotation_Drop(self) ==
    /\ pc = "idle"
    /\ self \in annotations
    /\ annotations' = annotations \ {self}
    /\ nativeOpen' = PdfPageHighlightAnnotation_drop(self, nativeOpen)
    /\ UNCHANGED <<docFormType, lastError, engineForms, exitCalls, getDestCalls,
                   formVars, actions, destCalls, lastDest, linkVars>>

(* --------------------------- examples/links.rs ------------------------ *)
\* page.links().len(): the number of links the engine holds for the page.
PdfPageLinks_len(index) == pageLinks[index + 1]

\* The iterator with <= written for <.
PdfPageLinksIterator_next_OffByOne(index, position) ==
    IF position <= PdfPageLinks_len(index) THEN Ok(position) ELSE Err("end")

\* The links iterator: the next link while its position is below len().
PdfPageLinksIterator_next(index, position) ==
    IF position < PdfPageLinks_len(index) THEN Ok(position) ELSE Err("end")

\* links_count += 1;
LinksCountStep(count) == count + 1

\* for (page_index, page) in document.pages().iter().enumerate() { let mut links_count = 0;
Main_NextPage ==
    /\ lpc = "pages"
    /\ page_index < Len(pageLinks)
    /\ links_count' = 0
    /\ link_index' = 0
    /\ lpc' = "links"
    /\ UNCHANGED <<engineVars, formVars, wrapperVars, pageLinks, page_index>>

\* for (link_index, link) in page.links().iter().enumerate() { .. links_count += 1; }
Main_NextLink ==
    /\ lpc = "links"
    /\ PdfPageLinksIterator_next(page_index, link_index).ok
    /\ links_count' = LinksCountStep(links_count)
    /\ link_index' = link_index + 1
    /\ UNCHANGED <<engineVars, formVars, wrapperVars, pageLinks, lpc, page_index>>

\* The links iterator is exhausted.
Main_LinksEnd ==
    /\ lpc = "links"
    /\ ~PdfPageLinksIterator_next(page_index, link_index).ok
    /\ lpc' = "assert"
    /\ UNCHANGED <<engineVars, formVars, wrapperVars, pageLinks, page_index,
                   link_index, links_count>>

\* assert_eq!(links_count, page.links().len());
Main_Assert ==
    /\ lpc = "assert"
    /\ IF links_count = PdfPageLinks_len(page_index)
       THEN /\ lpc' = "pages"
            /\ page_index' = page_index + 1
       ELSE /\ lpc' = "panicked"
            /\ UNCHANGED page_index
    /\ UNCHANGED <<engineVars, formVars, wrapperVars, pageLinks, link_index, links_count>>

\* Ok(())
Main_Done ==
    /\ lpc = "pages"
    /\ page_index = Len(pageLinks)
    /\ lpc' = "done"
    /\ UNCHANGED <<engineVars, formVars, wrapperVars, pageLinks, page_index,
                   link_index, links_count>>

(* --------------------------- specifications --------------------------- *)
AllNative ==
    {Native("document", d) : d \in Docs} \cup {Native("page", p) : p \in PageHandles}
    \cup {Native("annotation", a) : a \in AnnotationHandles}
    \cup {Native("action", h) : h \in ActionHandles}

FormHandles == NULL .. MaxCalls

\* Nothing of the form, wrapper or example parts has run.
FormIdle ==
    /\ engineForms = {}
    /\ exitCalls = [h \in FormHandles |-> 0]
    /\ heap = {}
    /\ nextAddr = 1
    /\ nextHandle = 1
    /\ pc = "idle"
    /\ call = NoCall
    /\ dropping = NoForm
    /\ forms = {}
    /\ history = {}

WrappersIdle ==
    /\ actions = {}
    /\ annotations = {}
    /\ destCalls = 0
    /\ getDestCalls = 0
    /\ lastDest = NoDest

LinksIdle ==
    /\ lpc = "pages"
    /\ page_index = 0
    /\ link_index = 0
    /\ links_count = 0

\* Documents are open, each with whatever form type the engine reports for it.
Init ==
    /\ docFormType \in [Docs -> FormTypeCodes]
    /\ lastError = NoError
    /\ nativeOpen = AllNative
    /\ FormIdle
    /\ WrappersIdle
    /\ LinksIdle
    /\ pageLinks = <<>>

\* Document::form() and the drop of the forms it returned.
Next ==
    \/ \E d \in Docs : FromPdfium_Alloc(d)
    \/ FromPdfium_Init
    \/ FromPdfium_Check
    \/ FromPdfium_FormType
    \/ \E f \in forms : DropForm(f)
    \/ Drop_Exit
    \/ Drop_Fields

Spec == Init /\ [][Next]_vars

\* One document with an embedded Acrobat form is open and its PdfForm is held
\* by the caller (the state from_pdfium leaves behind when it returns
\* Some(form)), while links' actions and highlight annotations are wrapped,
\* used and dropped; the PdfForm may be dropped in between.
LiveForm == [form_handle |-> 1, document_handle |-> 1, form_fill_info |-> 1]

InitWrappers ==
    /\ docFormType = [d \in Docs |-> FORMTYPE_ACRO_FORM]
    /\ lastError = NoError
    /\ nativeOpen = AllNative
    /\ engineForms = {[handle |-> LiveForm.form_handle, info |-> LiveForm.form_fill_info]}
    /\ exitCalls = [h \in FormHandles |-> 0]
    /\ heap = {LiveForm.form_fill_info}
    /\ nextAddr = 2
    /\ nextHandle = 2
    /\ pc = "idle"
    /\ call = NoCall
    /\ dropping = NoForm
    /\ forms = {LiveForm}
    /\ history = {[document_handle |-> 1, form_handle |-> 1, error |-> NoError,
                   form_type |-> FORMTYPE_ACRO_FORM, result |-> "Some"]}
    /\ WrappersIdle
    /\ LinksIdle
    /\ pageLinks = <<>>

BorrowStep ==
    \/ \E h \in ActionHandles, d \in Docs, b \in Bindings : Action_FromPdfium(h, d, b)
    \/ \E w \in actions : Action_Destination(w)
    \/ \E w \in actions : Action_Drop(w)
    \/ \E a \in AnnotationHandles, p \in PageHandles, d \in Docs, b \in Bindings :
          Annotation_FromPdfium(a, p, d, b)
    \/ \E w \in annotations : Annotation_Drop(w)

NextWrappers ==
    \/ BorrowStep
    \/ \E f \in forms : DropForm(f)
    \/ Drop_Exit
    \/ Drop_Fields

SpecWrappers == InitWrappers /\ [][NextWrappers]_vars

\* examples/links.rs: the engine holds a document of up to MaxPages pages, each
\* with up to MaxLinks links.
InitLinks ==
    /\ docFormType = [d \in Docs |-> FORMTYPE_NONE]
    /\ lastError = NoError
    /\ nativeOpen = AllNative
    /\ FormIdle
    /\ WrappersIdle
    /\ LinksIdle
    /\ \E n \in 0 .. MaxPages : pageLinks \in [1 .. n -> 0 .. MaxLinks]

NextLinks ==
    \/ Main_NextPage
    \/ Main_NextLink
    \/ Main_LinksEnd
    \/ Main_Assert
    \/ Main_Done

SpecLinks == InitLinks /\ [][NextLinks]_vars

(* ------------------------------- claims ------------------------------- *)
KnownFormTypes ==
    {FORMTYPE_NONE, FORMTYPE_ACRO_FORM, FORMTYPE_XFA_FULL, FORMTYPE_XFA_FOREGROUND}

\* C1: while the engine holds a form-fill handle, the FPDF_FORMFILLINFO block
\* whose address was passed to the Init call that returned it is still
\* allocated at that address (addresses are never reused in the model, so
\* "allocated at that address" is "that block is allocated").
C1_BlockOutlivesHandle ==
    \A e \in engineForms : e.info \in heap

\* C2: no form-fill handle is leaked.  Whenever neither from_pdfium nor a drop
\* is running, every handle the engine still holds belongs to a PdfForm the
\* caller owns, whose drop will pass it to FPDFDOC_ExitFormFillEnvironment;
\* so a handle from_pdfium did not return inside a PdfForm has been passed to
\* Exit before from_pdfium returned.
C2_NoHandleLeaked ==
    pc = "idle" => \A e \in engineForms : \E f \in forms : f.form_handle = e.handle

\* C3: FPDFDOC_ExitFormFillEnvironment is called at most once for each handle
\* FPDFDOC_InitFormFillEnvironment returned, and never with a null handle.
C3_NoDoubleRelease ==
    /\ exitCalls[NULL] = 0
    /\ \A h \in DOMAIN exitCalls : exitCalls[h] <= 1

\* A form of type None was discarded inside from_pdfium and a returned PdfForm
\* was dropped by the caller; the handle of each went to Exit once.
C3_Witness ==
    /\ pc = "idle"
    /\ \E r \in history :
          /\ r.result = "None" /\ r.form_handle # NULL /\ r.error = NoError
          /\ r.form_type = FORMTYPE_NONE
          /\ exitCalls[r.form_handle] = 1
    /\ \E r \in history :
          /\ r.result = "Some"
          /\ exitCalls[r.form_handle] = 1

\* C4: when Init returns a non-null handle and FPDF_GetFormType reports
\* Acrobat, XfaFull or XfaForeground for the document, from_pdfium returns
\* Some(form); and every PdfForm it returned reports a form type other than
\* None.
C4_NonEmptyFormPresent ==
    /\ \A r \in history :
          (r.form_handle # NULL /\ r.form_type \in KnownFormTypes \ {FORMTYPE_NONE})
             => r.result = "Some"
    /\ \A f \in forms : PdfForm_form_type(f) # "None"

\* C5: when Init returns a null handle with no last error, or a non-null handle
\* while FPDF_GetFormType reports FORMTYPE_NONE, from_pdfium returns None (it
\* neither panics nor returns a form).
C5_EmptyFormAbsent ==
    \A r \in history :
       (\/ r.form_handle = NULL /\ r.error = NoError
        \/ r.form_handle # NULL /\ r.form_type = FORMTYPE_NONE)
          => r.result = "None"

\* Both cases have happened: a null handle with no error, and a valid handle to
\* a form of type None that from_pdfium built, found empty and dropped.
C5_Witness ==
    /\ pc = "idle"
    /\ \E r \in history : r.form_handle = NULL /\ r.error = NoError /\ r.result = "None"
    /\ \E r \in history :
          /\ r.form_handle # NULL /\ r.error = NoError
          /\ r.form_type = FORMTYPE_NONE /\ r.result = "None"
          /\ exitCalls[r.form_handle] = 1

\* C6: the outcome of from_pdfium for a failed initialisation differs from its
\* outcome for a document whose form was initialised without error and is
\* empty.  The failures taken here are those for which the last-error query
\* reports a cause (with or without a handle): a null handle with no cause is
\* the "absent form" of C5, whose outcome is None by that claim.
C6_FailureDistinguished ==
    \A a \in history, b \in history :
       (/\ a.error # NoError
        /\ b.form_handle # NULL /\ b.error = NoError /\ b.form_type = FORMTYPE_NONE)
          => a.result # b.result

\* C7: a form type code that is none of the four known codes reaches the caller
\* of from_pdfium as the error UnknownFormType, not as a panic or a default.
C7_UnknownFormTypeIsError ==
    \A r \in history :
       (r.form_handle # NULL /\ r.error = NoError /\ r.form_type \notin KnownFormTypes)
          => r.result = "UnknownFormType"

\* C8: destination() gives Ok(the destination of exactly the handle the engine
\* returned, with the receiver's bindings) for a non-null handle,
\* Err(PdfiumLibraryInternalError(e)) for a null handle with last error e,
\* Err(PdfiumLibraryInternalError(Unknown)) for a null handle with no last
\* error, never Ok for a null handle, and calls FPDFAction_GetDest once.
C8_DestinationClassified ==
    /\ getDestCalls = destCalls
    /\ destCalls > 0 =>
          /\ lastDest.handle # NULL =>
                lastDest.result = Ok([handle |-> lastDest.handle,
                                      bindings |-> lastDest.self.bindings])
          /\ (lastDest.handle = NULL /\ lastDest.error # NoError) =>
                lastDest.result = Err(PdfiumLibraryInternalError(lastDest.error))
          /\ (lastDest.handle = NULL /\ lastDest.error = NoError) =>
                lastDest.result = Err(PdfiumLibraryInternalError("Unknown"))
          /\ lastDest.handle = NULL => ~lastDest.result.ok

\* destination() was called twice, the last time with a null handle and the
\* cause FormatError.
C8_Witness ==
    /\ destCalls > 1
    /\ lastDest.handle = NULL
    /\ lastDest.error = "FormatError"
    /\ ~lastDest.result.ok

C10_BorrowersReleaseNothing ==
    [][BorrowStep => UNCHANGED <<nativeOpen, engineForms, exitCalls, heap>>]_vars

\* An action wrapper was built, asked for its destination and dropped, and a
\* highlight annotation is wrapped, while the engine holds a form-fill handle.
C10_Witness ==
    /\ destCalls > 0
    /\ actions = {}
    /\ annotations # {}
    /\ engineForms # {}
    /\ nativeOpen = AllNative

====
